---- MODULE Spec2Model ----
(***************************************************************************)
(* lar-mcp: the twelve lar-* tool handlers of src/main.ts and the          *)
(* credential helpers of src/utils/login.ts.                               *)
(*                                                                         *)
(* One tool invocation is one action.  No handler shares state with        *)
(* another, so an invocation is determined by its arguments, the process   *)
(* environment and the outcome of each network call it awaits; the         *)
(* outcomes are drawn call by call, only for the calls the handler reaches.*)
(* Text is a sequence of tokens (words or characters), so that             *)
(* concatenation, includes, split, startsWith and substring are computed   *)
(* on the text itself.                                                     *)
(***************************************************************************)
EXTENDS Integers, Sequences, FiniteSets, TLC

VARIABLES
    env,      \* the names of the process.env variables that are set (non-empty)
    tool,     \* the tool of the last invocation, "none" before the first
    args,     \* the arguments of the call, as the caller sent them
    calls,    \* the network exchanges of the invocation, in the order issued
    result,   \* what the invocation handed back to the MCP layer
    frames,   \* lar-ask: the frames the backend wrote, write by write
    cut       \* lar-ask: 0 when each write arrived as one chunk; k when the
              \* transport delivered the only write in two chunks, cut after byte k

vars == <<env, tool, args, calls, result, frames, cut>>

------------------------------------------------------------------------------
(* JavaScript values *)

Undefined == "undefined"
Null == "null"

\* if (x), x || y, filter(Boolean)
Truthy(v) == v \notin {Undefined, Null, ""}

EnvVars == {"API_URL", "API_EMAIL", "API_PASSWORD"}

------------------------------------------------------------------------------
(* Text helpers *)

\* String.prototype.startsWith
StartsWith(s, p) == Len(s) >= Len(p) /\ SubSeq(s, 1, Len(p)) = p

\* String.prototype.indexOf, 1-based; 0 when there is no occurrence
IndexOf(s, p) ==
    LET hits == {i \in 1..(Len(s) - Len(p) + 1) : SubSeq(s, i, i + Len(p) - 1) = p}
    IN IF hits = {} THEN 0 ELSE CHOOSE i \in hits : \A j \in hits : i <= j

\* String.prototype.includes
Includes(s, p) == IndexOf(s, p) # 0

------------------------------------------------------------------------------
(* JSON *)

NoJson ==
    [ok |-> FALSE, t |-> "none", f |-> <<>>, keys |-> <<>>, items |-> <<>>, raw |-> <<>>]

\* the distinct keys among the first m key tokens of an object text, in the
\* order of their first occurrence (the property order of the parsed object)
RECURSIVE KeyOrder(_, _)
KeyOrder(text, m) ==
    IF m = 0 THEN <<>>
    ELSE LET before == KeyOrder(text, m - 1)
             k == text[2 * m]
         IN IF \E i \in 1..Len(before) : before[i] = k THEN before
            ELSE Append(before, k)

\* JSON.parse on a token text: null, an object "{" k1 v1 ... kn vn "}" (the
\* last occurrence of a key wins), an array "[" items "]"; anything else
\* throws a SyntaxError (ok = FALSE).
JsonParse(text) ==
    LET n == Len(text) IN
    IF text = <<"null">> THEN [NoJson EXCEPT !.ok = TRUE, !.t = "null"]
    ELSE IF n >= 2 /\ text[1] = "{" /\ text[n] = "}" /\ (n - 2) % 2 = 0 THEN
        LET m == (n - 2) \div 2
            keys == {text[2 * i] : i \in 1..m}
            last(k) == CHOOSE i \in 1..m :
                          /\ text[2 * i] = k
                          /\ \A j \in 1..m : text[2 * j] = k => j <= i
        IN [NoJson EXCEPT !.ok = TRUE, !.t = "object",
                          !.f = [k \in keys |-> text[2 * last(k) + 1]],
                          !.keys = KeyOrder(text, m)]
    ELSE IF n >= 2 /\ text[1] = "[" /\ text[n] = "]" THEN
        [NoJson EXCEPT !.ok = TRUE, !.t = "array", !.items = SubSeq(text, 2, n - 1)]
    ELSE NoJson

\* try { result = JSON.parse(text) } catch { result = { raw: text } }
TolerantParse(text) ==
    LET v == JsonParse(text) IN
    IF v.ok THEN v ELSE [NoJson EXCEPT !.ok = TRUE, !.t = "raw", !.raw = text]

\* v.k for a parsed value that is not null or undefined
Get(v, k) == IF v.t = "object" /\ k \in DOMAIN v.f THEN v.f[k] ELSE Undefined

\* JSON.stringify(v, null, 2) of a parsed value, as tokens (indentation dropped)
RECURSIVE Members(_, _)
Members(v, i) ==
    IF i > Len(v.keys) THEN <<>>
    ELSE <<v.keys[i], v.f[v.keys[i]]>> \o Members(v, i + 1)

JsonStringify(v) ==
    IF v.t = "null" THEN <<"null">>
    ELSE IF v.t = "array" THEN <<"[">> \o v.items \o <<"]">>
    ELSE <<"{">> \o Members(v, 1) \o <<"}">>

\* JSON.stringify(o) of a request object: properties that are undefined are left out
StringifyBody(o) == [k \in {x \in DOMAIN o : o[x] # Undefined} |-> o[k]]

------------------------------------------------------------------------------
(* Network exchanges *)

NoAuth == "none"

\* a header built from a token kept from an earlier invocation
BearerCached(token) == <<"Bearer ", "jwt1">>

Bearer(token) == <<"Bearer ", token>>
NoBody == <<>>

\* a request that failed before any response arrived (fetch rejects, axios throws)
Rejected(msg) ==
    [rejected |-> TRUE, err |-> msg, status |-> 0, text |-> <<>>, readable |-> FALSE]

\* a response with a status line; readable = FALSE when reading the body fails
Response(status, text, readable) ==
    [rejected |-> FALSE, err |-> <<>>, status |-> status, text |-> text,
     readable |-> readable]

\* a test that takes every answer for a success
OkAlways(resp) == TRUE

\* a test that takes every status below 500 for a success
OkBelow500(resp) == resp.status >= 200 /\ resp.status <= 499

\* response.ok
Ok(resp) == resp.status >= 200 /\ resp.status <= 299

Exchange(method, url, auth, body, resp) ==
    [method |-> method, url |-> url, auth |-> auth, body |-> body, resp |-> resp]

\* process.env.API_URL ? `${process.env.API_URL}<path>` : "http://localhost:3000<path>"
ApiUrl(path) ==
    <<IF "API_URL" \in env THEN "API_URL" ELSE "http://localhost:3000">> \o path

------------------------------------------------------------------------------
(* Inputs: what the environment can answer *)

Tokens == {"jwt1", "jwt2"}
NetErrors == {"fetch failed"}
BodyReadError == "terminated"
Statuses == {200, 204, 400, 404, 500}

\* axios rejects a non-2xx answer with this message
AxiosStatusError(status) == <<"Request failed with status code ", ToString(status)>>

\* the responses a backend call can get: a rejection, a 2xx answer with one of
\* okTexts, a non-2xx answer with one of errTexts; the body may fail to arrive
BackendResponses(okTexts, errTexts) ==
    {Rejected(<<m>>) : m \in NetErrors}
    \cup {Response(s, t, r) : s \in {x \in Statuses : Ok(Response(x, <<>>, TRUE))},
                               t \in okTexts, r \in BOOLEAN}
    \cup {Response(s, t, r) : s \in {x \in Statuses : ~Ok(Response(x, <<>>, TRUE))},
                               t \in errTexts, r \in BOOLEAN}

ErrTexts == {<<>>, <<"Not Found">>}

------------------------------------------------------------------------------
(* Results *)

NoResult == [kind |-> "none", content |-> <<>>, payload |-> NoJson]

\* return { content: [{ type: "text", text }], ...payload }
Returned(text, payload) ==
    [kind |-> "returned", content |-> <<[type |-> "text", text |-> text]>>,
     payload |-> payload]

ProcessError == "Error en el proceso: "

\* a catch block that throws the error on instead of returning a result
CatchRethrows(prefix, message) ==
    [kind |-> "rejected", content |-> <<>>, payload |-> NoJson]

\* a catch block that uses the generic prefix whatever the handler
CatchOnePrefix(prefix, message) ==
    [kind |-> "returned",
     content |-> <<[type |-> "text", text |-> <<"Error en el proceso: ">> \o message]>>,
     payload |-> NoJson]

\* catch (error) { return { content: [{ type: "text", text: `<prefix>${error.message}` }] } }
Catch(prefix, message) == Returned(<<prefix>> \o message, NoJson)

\* the handler of tool t, called with a, ends with exchanges c and result r
Finish(t, a, c, r) ==
    /\ tool' = t
    /\ args' = a
    /\ calls' = c
    /\ result' = r

------------------------------------------------------------------------------
(* src/utils/login.ts *)

ConfigError == <<"Faltan las variables de entorno API_URL, API_EMAIL o API_PASSWORD">>

LoginUrl == <<"API_URL", "/api/auth/login">>

LoginTexts == {<<"{", "token", tok, "}">> : tok \in Tokens}

\* The runs of loginAPI(): the exchanges it made and either the value it
\* returned or the message of the error it threw.
loginAPI ==
    IF env # EnvVars
    THEN {[calls |-> <<>>, threw |-> TRUE, val |-> Undefined, err |-> ConfigError]}
    ELSE LET creds == [email |-> "API_EMAIL", password |-> "API_PASSWORD"]
             run(resp) ==
                LET c == <<Exchange("POST", LoginUrl, NoAuth, creds, resp)>> IN
                IF resp.rejected
                THEN [calls |-> c, threw |-> TRUE, val |-> Undefined, err |-> resp.err]
                ELSE IF ~Ok(resp)
                THEN [calls |-> c, threw |-> TRUE, val |-> Undefined,
                      err |-> AxiosStatusError(resp.status)]
                ELSE [calls |-> c, threw |-> FALSE,
                      val |-> Get(TolerantParse(resp.text), "token"), err |-> <<>>]
         IN {run(resp) : resp \in {Rejected(<<m>>) : m \in NetErrors}
                                   \cup {Response(200, t, TRUE) : t \in LoginTexts}
                                   \cup {Response(401, <<>>, TRUE)}}

------------------------------------------------------------------------------
(* lar-delete-document *)

Names == {"a.pdf", "b c"}

\* encodeURIComponent on the names above
EncodeURIComponent(name) == IF name = "b c" THEN "b%20c" ELSE name

\* a classification without the 404 case
DeleteDocumentResultNo404(name, resp) ==
    IF ~Ok(resp) THEN
        IF ~resp.readable THEN Catch(ProcessError, <<BodyReadError>>)
        ELSE Returned(<<"Error al eliminar el documento: ", ToString(resp.status),
                        " - ">> \o resp.text, NoJson)
    ELSE Returned(<<"Documento \"", name, "\" eliminado correctamente.">>, NoJson)

\* main.ts 232-263: the result for a response of DELETE /api/files/<name>
DeleteDocumentResult(name, resp) ==
    IF ~Ok(resp) THEN
        IF ~resp.readable THEN Catch(ProcessError, <<BodyReadError>>)
        ELSE IF resp.status = 404
        THEN Returned(<<"No se encontró ningún documento con el nombre \"", name,
                        "\".">>, NoJson)
        ELSE Returned(<<"Error al eliminar el documento: ", ToString(resp.status),
                        " - ">> \o resp.text, NoJson)
    ELSE Returned(<<"Documento \"", name, "\" eliminado correctamente.">>, NoJson)

LarDeleteDocument ==
    /\ tool = "none"
    /\ \E name \in Names :
      LET a == [name |-> name] IN
      \E lg \in loginAPI :
        IF lg.threw
        THEN Finish("lar-delete-document", a, lg.calls, Catch(ProcessError, lg.err))
        ELSE \E resp \in BackendResponses({<<>>}, ErrTexts) :
          LET url == ApiUrl(<<"/api/files/", EncodeURIComponent(name)>>)
              c == Append(lg.calls,
                          Exchange("DELETE", url, Bearer(lg.val), NoBody, resp))
          IN IF resp.rejected
             THEN Finish("lar-delete-document", a, c, Catch(ProcessError, resp.err))
             ELSE Finish("lar-delete-document", a, c, DeleteDocumentResult(name, resp))

------------------------------------------------------------------------------
(* getUserId (src/utils/login.ts) *)

UserIds == {"u1"}

UserIdUrl == <<"API_URL", "/api/auth/user-id">>

UserIdTexts == {<<"{", "userId", u, "}">> : u \in UserIds}

\* The runs of getUserId(): it logs in again, then asks for the user id with
\* the token of that login.
getUserId ==
    LET after(lg) ==
            IF lg.threw THEN {lg}
            ELSE LET run(resp) ==
                        LET c == Append(lg.calls,
                                        Exchange("GET", UserIdUrl, Bearer(lg.val), NoBody, resp))
                        IN IF resp.rejected
                           THEN [calls |-> c, threw |-> TRUE, val |-> Undefined,
                                 err |-> resp.err]
                           ELSE IF ~Ok(resp)
                           THEN [calls |-> c, threw |-> TRUE, val |-> Undefined,
                                 err |-> AxiosStatusError(resp.status)]
                           ELSE [calls |-> c, threw |-> FALSE,
                                 val |-> Get(TolerantParse(resp.text), "userId"),
                                 err |-> <<>>]
                 IN {run(resp) : resp \in {Rejected(<<m>>) : m \in NetErrors}
                                           \cup {Response(200, t, TRUE) : t \in UserIdTexts}
                                           \cup {Response(401, <<>>, TRUE)}}
    IN UNION {after(lg) : lg \in loginAPI}

------------------------------------------------------------------------------
(* lar-delete-client *)

Ids == {"1", "2"}

AssociatedCases == <<"associated", " ", "cases">>

DeleteClientErrTexts ==
    {<<>>, <<"Cannot delete client with ", "associated", " ", "cases">>,
     <<"associated", " ", "clients">>, <<"cases", " ", "associated">>}

\* a classification that takes every 400 for the association conflict
DeleteClientResultAny400(clientId, resp) ==
    IF ~Ok(resp) THEN
        IF ~resp.readable THEN Catch(ProcessError, <<BodyReadError>>)
        ELSE IF resp.status = 400
        THEN Returned(<<"No se puede eliminar el cliente porque tiene casos asociados. Por favor, elimine primero los casos o reasígnelos a otro cliente.">>,
                      NoJson)
        ELSE Returned(<<"Error al eliminar el cliente: ", ToString(resp.status),
                        " - ">> \o resp.text, NoJson)
    ELSE Returned(<<"Cliente con ID ", clientId, " eliminado correctamente.">>, NoJson)

\* main.ts 495-526: the result for a response of DELETE /api/clients/<clientId>
DeleteClientResult(clientId, resp) ==
    IF ~Ok(resp) THEN
        IF ~resp.readable THEN Catch(ProcessError, <<BodyReadError>>)
        ELSE IF resp.status = 400 /\ Includes(resp.text, AssociatedCases)
        THEN Returned(<<"No se puede eliminar el cliente porque tiene casos asociados. Por favor, elimine primero los casos o reasígnelos a otro cliente.">>,
                      NoJson)
        ELSE Returned(<<"Error al eliminar el cliente: ", ToString(resp.status),
                        " - ">> \o resp.text, NoJson)
    ELSE Returned(<<"Cliente con ID ", clientId, " eliminado correctamente.">>, NoJson)

LarDeleteClient ==
    /\ tool = "none"
    /\ \E clientId \in Ids :
      LET a == [clientId |-> clientId] IN
      \E lg \in loginAPI :
        IF lg.threw
        THEN Finish("lar-delete-client", a, lg.calls, Catch(ProcessError, lg.err))
        ELSE \E resp \in BackendResponses({<<>>}, DeleteClientErrTexts) :
          LET url == ApiUrl(<<"/api/clients/", clientId>>)
              c == Append(lg.calls,
                          Exchange("DELETE", url, Bearer(lg.val), NoBody, resp))
          IN IF resp.rejected
             THEN Finish("lar-delete-client", a, c, Catch(ProcessError, resp.err))
             ELSE Finish("lar-delete-client", a, c, DeleteClientResult(clientId, resp))

------------------------------------------------------------------------------
(* lar-delete-case *)

\* main.ts 840-859: the result for a response of DELETE /api/cases/<caseId>
DeleteCaseResult(caseId, resp) ==
    IF ~Ok(resp) THEN
        IF ~resp.readable THEN Catch(ProcessError, <<BodyReadError>>)
        ELSE Returned(<<"Error al eliminar el caso: ", ToString(resp.status),
                        " - ">> \o resp.text, NoJson)
    ELSE Returned(<<"Caso con ID ", caseId, " eliminado correctamente.">>, NoJson)

LarDeleteCase ==
    /\ tool = "none"
    /\ \E caseId \in Ids :
      LET a == [caseId |-> caseId] IN
      \E lg \in loginAPI :
        IF lg.threw
        THEN Finish("lar-delete-case", a, lg.calls, Catch(ProcessError, lg.err))
        ELSE \E resp \in BackendResponses({<<>>}, ErrTexts) :
          LET url == ApiUrl(<<"/api/cases/", caseId>>)
              c == Append(lg.calls,
                          Exchange("DELETE", url, Bearer(lg.val), NoBody, resp))
          IN IF resp.rejected
             THEN Finish("lar-delete-case", a, c, Catch(ProcessError, resp.err))
             ELSE Finish("lar-delete-case", a, c, DeleteCaseResult(caseId, resp))

------------------------------------------------------------------------------
(* lar-list-documents, lar-list-clients, lar-list-cases *)

SyntaxError == "Unexpected token < in JSON at position 0"

ListTexts ==
    {<<"[", "]">>, <<"[", "item1", "item2", "]">>, <<"{", "error", "x", "}">>,
     <<"null">>, <<"<html>">>}

\* await response.json(): the parsed body, or the message of what it threw
ResponseJson(resp) ==
    IF ~resp.readable THEN [threw |-> TRUE, err |-> <<BodyReadError>>, val |-> NoJson]
    ELSE LET v == JsonParse(resp.text) IN
         IF v.ok THEN [threw |-> FALSE, err |-> <<>>, val |-> v]
         ELSE [threw |-> TRUE, err |-> <<SyntaxError>>, val |-> NoJson]

\* main.ts 298-331 (documents) and 355-388 (clients): prefix is the handler's
\* "Error al obtener los ...: "
ListResult(prefix, resp) ==
    IF ~Ok(resp) THEN
        IF ~resp.readable THEN Catch(prefix, <<BodyReadError>>)
        ELSE Returned(<<prefix, ToString(resp.status), " - ">> \o resp.text, NoJson)
    ELSE LET j == ResponseJson(resp) IN
         IF j.threw THEN Catch(prefix, j.err)
         ELSE Returned(JsonStringify(j.val), j.val)

\* main.ts 673-717
ListCasesResult(prefix, resp) ==
    IF ~Ok(resp) THEN
        IF ~resp.readable THEN Catch(prefix, <<BodyReadError>>)
        ELSE Returned(<<prefix, ToString(resp.status), " - ">> \o resp.text, NoJson)
    ELSE LET j == ResponseJson(resp) IN
         IF j.threw THEN Catch(prefix, j.err)
         ELSE IF j.val.t # "array" \/ Len(j.val.items) = 0
         THEN Returned(<<"No hay casos disponibles en el sistema.">>, NoJson)
         ELSE Returned(JsonStringify(j.val), j.val)

DocumentsError == "Error al obtener los documentos: "
ClientsError == "Error al obtener los clientes: "
CasesError == "Error al obtener los casos: "

LarListDocuments ==
    /\ tool = "none"
    /\ \E lg \in loginAPI :
      IF lg.threw
      THEN Finish("lar-list-documents", <<>>, lg.calls, Catch(DocumentsError, lg.err))
      ELSE \E resp \in BackendResponses(ListTexts, ErrTexts) :
        LET c == Append(lg.calls, Exchange("GET", ApiUrl(<<"/api/files">>),
                                           Bearer(lg.val), NoBody, resp))
        IN IF resp.rejected
           THEN Finish("lar-list-documents", <<>>, c, Catch(DocumentsError, resp.err))
           ELSE Finish("lar-list-documents", <<>>, c, ListResult(DocumentsError, resp))

LarListClients ==
    /\ tool = "none"
    /\ \E lg \in loginAPI :
      IF lg.threw
      THEN Finish("lar-list-clients", <<>>, lg.calls, Catch(ClientsError, lg.err))
      ELSE \E resp \in BackendResponses(ListTexts, ErrTexts) :
        LET c == Append(lg.calls, Exchange("GET", ApiUrl(<<"/api/clients/user">>),
                                           Bearer(lg.val), NoBody, resp))
        IN IF resp.rejected
           THEN Finish("lar-list-clients", <<>>, c, Catch(ClientsError, resp.err))
           ELSE Finish("lar-list-clients", <<>>, c, ListResult(ClientsError, resp))

LarListCases ==
    /\ tool = "none"
    /\ \E lg \in loginAPI :
      IF lg.threw
      THEN Finish("lar-list-cases", <<>>, lg.calls, Catch(CasesError, lg.err))
      ELSE \E resp \in BackendResponses(ListTexts, ErrTexts) :
        LET c == Append(lg.calls, Exchange("GET", ApiUrl(<<"/api/cases">>),
                                           Bearer(lg.val), NoBody, resp))
        IN IF resp.rejected
           THEN Finish("lar-list-cases", <<>>, c, Catch(CasesError, resp.err))
           ELSE Finish("lar-list-cases", <<>>, c, ListCasesResult(CasesError, resp))

------------------------------------------------------------------------------
(* lar-create-client *)

TypeErrorNull == "Cannot read properties of null"

\* the answers a write (POST, PUT) can get
WriteResponses ==
    {Rejected(<<m>>) : m \in NetErrors}
    \cup {Response(200, <<"{", "id", "7", "}">>, TRUE), Response(201, <<"created">>, TRUE),
          Response(200, <<>>, FALSE), Response(400, <<"Bad Request">>, TRUE),
          Response(500, <<>>, FALSE)}

\* main.ts 430-458, 610-638, 775-803, 950-978: read the body as text, parse it
\* tolerantly, then report a non-2xx status or the success
WriteResult(errorPrefix, success, resp) ==
    IF ~resp.readable THEN Catch(ProcessError, <<BodyReadError>>)
    ELSE LET parsed == TolerantParse(resp.text) IN
         IF ~Ok(resp)
         THEN Returned(<<errorPrefix, ToString(resp.status), " - ">> \o resp.text, NoJson)
         ELSE Returned(success, parsed)

OptionalStrings == {Undefined, "", "new"}

\* main.ts 411-418
ClientData(a, idUser) ==
    LET base == [idUser |-> idUser, name |-> a.name,
                 contactInformation |-> a.contactInformation,
                 address |-> IF Truthy(a.address) THEN a.address ELSE Undefined,
                 notes |-> IF Truthy(a.notes) THEN a.notes ELSE Undefined]
    IN StringifyBody(base)

LarCreateClient ==
    /\ tool = "none"
    /\ \E address \in OptionalStrings, notes \in OptionalStrings :
      LET a == [name |-> "Acme", contactInformation |-> "x", address |-> address,
                notes |-> notes] IN
      \E lg \in loginAPI :
        IF lg.threw
        THEN Finish("lar-create-client", a, lg.calls, Catch(ProcessError, lg.err))
        ELSE \E gu \in getUserId :
          IF gu.threw
          THEN Finish("lar-create-client", a, lg.calls \o gu.calls,
                      Catch(ProcessError, gu.err))
          ELSE \E resp \in WriteResponses :
            LET c == Append(lg.calls \o gu.calls,
                            Exchange("POST", ApiUrl(<<"/api/clients">>), Bearer(lg.val),
                                     ClientData(a, gu.val), resp))
            IN IF resp.rejected
               THEN Finish("lar-create-client", a, c, Catch(ProcessError, resp.err))
               ELSE Finish("lar-create-client", a, c,
                           WriteResult("Error al crear el cliente: ",
                                       <<"Cliente creado correctamente.}">>, resp))

------------------------------------------------------------------------------
(* lar-create-case *)

CaseStatuses == {"Open", "Closed", "Pending"}

NaN == "NaN"

\* new Date(s): the ISO string of the instant, or NaN when s does not parse
DateParse(s) ==
    CASE s = "2025-01-02" -> "2025-01-02T00:00:00.000Z"
      [] s = "2025-01-02T10:00:00+02:00" -> "2025-01-02T08:00:00.000Z"
      [] OTHER -> NaN

CourtDates == {Undefined, "2025-01-02", "2025-01-02T10:00:00+02:00", "mañana"}

InvalidDate ==
    <<"Formato de fecha inválido. Por favor, usa el formato YYYY-MM-DD o YYYY-MM-DDTHH:MM:SS±HH:MM.">>

\* a schema whose status is optional, without a default
CreateCaseSchemaNoDefault(raw) == raw

\* main.ts 724-730: what the zod schema hands to the handler;
\* status: z.enum([...]).default('Open')
CreateCaseSchema(raw) ==
    [raw EXCEPT !.status = IF raw.status = Undefined THEN "Open" ELSE raw.status]

\* main.ts 741-763, without the court date
CaseData(a, assignedUserId) ==
    [title |-> a.title, assignedUserId |-> assignedUserId, clientId |-> a.clientId,
     status |-> a.status,
     description |-> IF Truthy(a.description) THEN a.description ELSE Undefined,
     courtDate |-> IF Truthy(a.courtDate) THEN DateParse(a.courtDate) ELSE Undefined]

LarCreateCase ==
    /\ tool = "none"
    /\ \E description \in OptionalStrings, status \in CaseStatuses \cup {Undefined},
       courtDate \in CourtDates :
      LET raw == [title |-> "T", description |-> description, status |-> status,
                  courtDate |-> courtDate, clientId |-> "1"]
          a == CreateCaseSchema(raw)
      IN
      \E lg \in loginAPI :
        IF lg.threw
        THEN Finish("lar-create-case", raw, lg.calls, Catch(ProcessError, lg.err))
        ELSE \E gu \in getUserId :
          IF gu.threw
          THEN Finish("lar-create-case", raw, lg.calls \o gu.calls,
                      Catch(ProcessError, gu.err))
          ELSE IF Truthy(a.courtDate) /\ DateParse(a.courtDate) = NaN
          THEN Finish("lar-create-case", raw, lg.calls \o gu.calls,
                      Returned(InvalidDate, NoJson))
          ELSE \E resp \in WriteResponses :
            LET c == Append(lg.calls \o gu.calls,
                            Exchange("POST", ApiUrl(<<"/api/cases">>), Bearer(lg.val),
                                     StringifyBody(CaseData(a, gu.val)), resp))
            IN IF resp.rejected
               THEN Finish("lar-create-case", raw, c, Catch(ProcessError, resp.err))
               ELSE Finish("lar-create-case", raw, c,
                           WriteResult("Error al crear el caso: ",
                                       <<"Caso creado correctamente.">>, resp))

------------------------------------------------------------------------------
(* lar-edit-client *)

\* the member "k": v of an object text; a property the backend leaves out
Member(k, v) == IF v = Undefined THEN <<>> ELSE <<k, v>>

ClientTexts ==
    {<<"{">> \o Member("name", n) \o Member("contactInformation", "x")
            \o Member("address", ad) \o Member("notes", nt) \o <<"}">> :
        n \in {Undefined, "Acme"}, ad \in {Undefined, Null, "", "Y"},
        nt \in {Undefined, "", "N"}}
    \cup {<<"null">>, <<"<html>">>}

\* the answers a GET of one entity can get
ReadResponses(texts) ==
    {Rejected(<<m>>) : m \in NetErrors}
    \cup {Response(200, t, TRUE) : t \in texts}
    \cup {Response(200, <<>>, FALSE), Response(404, <<"Not Found">>, TRUE),
          Response(404, <<"{", "message", "Not Found", "}">>, TRUE),
          Response(500, <<>>, FALSE)}

\* main.ts 567-576, 902-911: the early return on a GET that is not ok
GetFailed(prefix, resp) ==
    IF ~resp.readable THEN Catch(ProcessError, <<BodyReadError>>)
    ELSE Returned(<<prefix, ToString(resp.status), " - ">> \o resp.text, NoJson)

\* a merge that never falls back to the fetched name
UpdatedClientDataNoFallback(a, currentClient, idUser) ==
    [idUser |-> idUser, name |-> a.name,
     contactInformation |->
        IF a.contactInformation # Undefined THEN a.contactInformation
        ELSE Get(currentClient, "contactInformation"),
     address |->
        IF a.address # Undefined THEN a.address
        ELSE IF Truthy(Get(currentClient, "address")) THEN Get(currentClient, "address")
        ELSE Undefined,
     notes |->
        IF a.notes # Undefined THEN a.notes
        ELSE IF Truthy(Get(currentClient, "notes")) THEN Get(currentClient, "notes")
        ELSE Undefined]

\* main.ts 582-598
UpdatedClientData(a, currentClient, idUser) ==
    [idUser |-> idUser,
     name |-> IF a.name # Undefined THEN a.name ELSE Get(currentClient, "name"),
     contactInformation |->
        IF a.contactInformation # Undefined THEN a.contactInformation
        ELSE Get(currentClient, "contactInformation"),
     address |->
        IF a.address # Undefined THEN a.address
        ELSE IF Truthy(Get(currentClient, "address")) THEN Get(currentClient, "address")
        ELSE Undefined,
     notes |->
        IF a.notes # Undefined THEN a.notes
        ELSE IF Truthy(Get(currentClient, "notes")) THEN Get(currentClient, "notes")
        ELSE Undefined]

\* main.ts 584-597: the merge reads a property of currentClient (and throws a
\* TypeError when currentClient is null) unless the caller supplied all four
ReadsCurrentClient(a) ==
    \/ a.name = Undefined
    \/ a.contactInformation = Undefined
    \/ a.address = Undefined
    \/ a.notes = Undefined

LarEditClient ==
    /\ tool = "none"
    /\ \E name \in OptionalStrings, contactInformation \in OptionalStrings,
       address \in OptionalStrings, notes \in OptionalStrings :
      LET a == [clientId |-> "1", name |-> name,
                contactInformation |-> contactInformation, address |-> address,
                notes |-> notes]
          url == ApiUrl(<<"/api/clients/", a.clientId>>)
      IN
      \E lg \in loginAPI :
        IF lg.threw
        THEN Finish("lar-edit-client", a, lg.calls, Catch(ProcessError, lg.err))
        ELSE \E getResponse \in ReadResponses(ClientTexts) :
          LET c1 == Append(lg.calls,
                           Exchange("GET", url, Bearer(lg.val), NoBody, getResponse))
              j == ResponseJson(getResponse)
          IN
          IF getResponse.rejected
          THEN Finish("lar-edit-client", a, c1, Catch(ProcessError, getResponse.err))
          ELSE IF ~Ok(getResponse)
          THEN Finish("lar-edit-client", a, c1,
                      GetFailed("Error al obtener el cliente para editar: ", getResponse))
          ELSE IF j.threw
          THEN Finish("lar-edit-client", a, c1, Catch(ProcessError, j.err))
          ELSE \E gu \in getUserId :
            IF gu.threw
            THEN Finish("lar-edit-client", a, c1 \o gu.calls, Catch(ProcessError, gu.err))
            ELSE IF j.val.t = "null" /\ ReadsCurrentClient(a)
            THEN Finish("lar-edit-client", a, c1 \o gu.calls,
                        Catch(ProcessError, <<TypeErrorNull>>))
            ELSE \E resp \in WriteResponses :
              LET body == StringifyBody(UpdatedClientData(a, j.val, gu.val))
                  c2 == Append(c1 \o gu.calls,
                               Exchange("PUT", url, Bearer(lg.val), body, resp))
              IN IF resp.rejected
                 THEN Finish("lar-edit-client", a, c2, Catch(ProcessError, resp.err))
                 ELSE Finish("lar-edit-client", a, c2,
                             WriteResult("Error al actualizar el cliente: ",
                                         <<"Cliente con ID ", a.clientId,
                                           " actualizado correctamente.">>, resp))

------------------------------------------------------------------------------
(* lar-edit-case *)

CaseTexts ==
    {<<"{", "title", "t0">> \o Member("description", d) \o <<"status", "Open",
       "clientId", "1",
            "assignedUserId", "u7">> \o Member("courtDate", cd) \o <<"}">> :
        d \in {Undefined, "d0"}, cd \in {Undefined, "2024-05-06T00:00:00.000Z"}}
    \cup {<<"null">>, <<"<html>">>}

\* main.ts 915-938, without assignedUserId and the court date of the caller
UpdatedCaseData(a, currentCase, assignedUserId) ==
    [title |-> IF Truthy(a.title) THEN a.title ELSE Get(currentCase, "title"),
     description |->
        IF a.description # Undefined THEN a.description
        ELSE Get(currentCase, "description"),
     status |-> IF Truthy(a.status) THEN a.status ELSE Get(currentCase, "status"),
     clientId |-> IF Truthy(a.clientId) THEN a.clientId ELSE Get(currentCase, "clientId"),
     assignedUserId |-> assignedUserId,
     courtDate |->
        IF Truthy(a.courtDate) THEN DateParse(a.courtDate)
        ELSE IF Truthy(Get(currentCase, "courtDate")) THEN Get(currentCase, "courtDate")
        ELSE Undefined]

\* an assignee that is always looked up, whatever the caller supplied
AssigneeRunsAlwaysCurrentUser(a) == getUserId

\* assignedUserId || (await getUserId())
AssigneeRuns(a) ==
    IF Truthy(a.assignedUserId)
    THEN {[calls |-> <<>>, threw |-> FALSE, val |-> a.assignedUserId, err |-> <<>>]}
    ELSE getUserId

\* main.ts 916-919: the properties of currentCase that are read before the
\* assignee is resolved (|| and ?: read them only when the caller's value
\* does not decide)
ReadsCurrentCase(a) ==
    \/ ~Truthy(a.title)
    \/ a.description = Undefined
    \/ ~Truthy(a.status)
    \/ ~Truthy(a.clientId)

LarEditCase ==
    /\ tool = "none"
    /\ \E title \in OptionalStrings, description \in OptionalStrings,
       status \in {Undefined, "Closed"}, courtDate \in {Undefined, "2025-01-02", "mañana"},
       clientId \in {Undefined, "2"}, assignedUserId \in {Undefined, "9"} :
      LET a == [caseId |-> "1", title |-> title, description |-> description,
                status |-> status, courtDate |-> courtDate, clientId |-> clientId,
                assignedUserId |-> assignedUserId]
          url == ApiUrl(<<"/api/cases/", a.caseId>>)
      IN
      \E lg \in loginAPI :
        IF lg.threw
        THEN Finish("lar-edit-case", a, lg.calls, Catch(ProcessError, lg.err))
        ELSE \E getResponse \in ReadResponses(CaseTexts) :
          LET c1 == Append(lg.calls,
                           Exchange("GET", url, Bearer(lg.val), NoBody, getResponse))
              j == ResponseJson(getResponse)
          IN
          IF getResponse.rejected
          THEN Finish("lar-edit-case", a, c1, Catch(ProcessError, getResponse.err))
          ELSE IF ~Ok(getResponse)
          THEN Finish("lar-edit-case", a, c1,
                      GetFailed("Error al obtener el caso para editar: ", getResponse))
          ELSE IF j.threw
          THEN Finish("lar-edit-case", a, c1, Catch(ProcessError, j.err))
          ELSE IF j.val.t = "null" /\ ReadsCurrentCase(a)
          THEN Finish("lar-edit-case", a, c1, Catch(ProcessError, <<TypeErrorNull>>))
          ELSE \E gu \in AssigneeRuns(a) :
            IF gu.threw
            THEN Finish("lar-edit-case", a, c1 \o gu.calls, Catch(ProcessError, gu.err))
            ELSE IF Truthy(a.courtDate) /\ DateParse(a.courtDate) = NaN
            THEN Finish("lar-edit-case", a, c1 \o gu.calls, Returned(InvalidDate, NoJson))
            ELSE IF ~Truthy(a.courtDate) /\ j.val.t = "null"
            THEN Finish("lar-edit-case", a, c1 \o gu.calls,
                        Catch(ProcessError, <<TypeErrorNull>>))
            ELSE \E resp \in WriteResponses :
              LET body == StringifyBody(UpdatedCaseData(a, j.val, gu.val))
                  c2 == Append(c1 \o gu.calls,
                               Exchange("PUT", url, Bearer(lg.val), body, resp))
              IN IF resp.rejected
                 THEN Finish("lar-edit-case", a, c2, Catch(ProcessError, resp.err))
                 ELSE Finish("lar-edit-case", a, c2,
                             WriteResult("Error al actualizar el caso: ",
                                         <<"Caso con ID ", a.caseId,
                                           " actualizado correctamente.">>, resp))

------------------------------------------------------------------------------
(* lar-upload-document *)

PdfMagic == <<"%", "P", "D", "F", "-">>

\* the content-type header; <<>> when the response has none
ContentTypes ==
    {<<>>, <<"text/", "html">>, <<"application/", "pdf">>, <<"Application/", "PDF">>}

Files ==
    {PdfMagic \o <<"1">>, <<"%", "P", "D", "F">>, <<"<", "h", "t", "m", "l", ">">>,
     <<>>, <<"x">> \o PdfMagic}

\* String.prototype.toLowerCase on the tokens of a content type
ToLowerCase(s) ==
    [i \in 1..Len(s) |->
        CASE s[i] = "Application/" -> "application/"
          [] s[i] = "PDF" -> "pdf"
          [] OTHER -> s[i]]

\* what fetch(url) of the caller's URL can get: text holds the bytes of the body
Download(status, contentType, bytes, readable) ==
    [rejected |-> FALSE, err |-> <<>>, status |-> status, text |-> bytes,
     readable |-> readable, contentType |-> contentType]

\* the statuses the host of the file answers with; the handler never looks at
\* response.ok or response.status of the download
DownloadStatuses == {200, 404}

Downloads ==
    {[Rejected(<<m>>) EXCEPT !.text = <<>>] : m \in NetErrors}
    \cup {Download(st, ct, b, r) :
              st \in DownloadStatuses, ct \in ContentTypes, b \in Files, r \in BOOLEAN}

\* !contentType || !contentType.toLowerCase().includes('pdf')
NotPdfType(contentType) ==
    contentType = <<>> \/ ~Includes(ToLowerCase(contentType), <<"pdf">>)

\* a signature check that looks at four bytes only
NotPdfFileFourBytes(bytes) ==
    ~(Len(bytes) >= 4 /\ SubSeq(bytes, 1, 4) = <<"%", "P", "D", "F">>)

\* Buffer.from(arrayBuffer).subarray(0, 5).toString() !== '%PDF-'
NotPdfFile(bytes) ==
    SubSeq(bytes, 1, IF Len(bytes) < Len(PdfMagic) THEN Len(bytes) ELSE Len(PdfMagic))
        # PdfMagic

NotPdfTypeText ==
    <<"Solo se permiten archivos PDF. El archivo descargado no tiene tipo PDF.">>
NotPdfFileText ==
    <<"Solo se permiten archivos PDF. El archivo descargado no es un PDF válido.">>

UploadResponses ==
    {Rejected(<<m>>) : m \in NetErrors}
    \cup {Response(200, t, TRUE) :
            t \in {<<"{", "Id", "7", "}">>, <<"{", "id", "8", "}">>, <<"stored">>,
                   <<"null">>}}
    \cup {Response(200, <<>>, FALSE), Response(500, <<"Server Error">>, TRUE),
          Response(500, <<>>, FALSE)}

\* main.ts 169-196
UploadResult(resp) ==
    IF ~resp.readable THEN Catch(ProcessError, <<BodyReadError>>)
    ELSE IF ~Ok(resp)
    THEN Returned(<<"Error al subir el documento: ", ToString(resp.status), " - ">>
                  \o resp.text, NoJson)
    ELSE LET r == TolerantParse(resp.text) IN
         IF r.t = "null" THEN Catch(ProcessError, <<TypeErrorNull>>)
         ELSE Returned(<<"Documento subido correctamente. ID: ",
                         IF Truthy(Get(r, "Id")) THEN Get(r, "Id")
                         ELSE IF Truthy(Get(r, "id")) THEN Get(r, "id")
                         ELSE "desconocido">>, r)

LarUploadDocument ==
    /\ tool = "none"
    /\ \E name \in {"a.pdf"}, url \in {"https://host/doc"} :
      LET a == [name |-> name, url |-> url] IN
      \E response \in Downloads :
        LET c0 == <<Exchange("GET", <<url>>, NoAuth, NoBody, response)>> IN
        IF response.rejected
        THEN Finish("lar-upload-document", a, c0, Catch(ProcessError, response.err))
        ELSE IF NotPdfType(response.contentType)
        THEN Finish("lar-upload-document", a, c0, Returned(NotPdfTypeText, NoJson))
        ELSE IF ~response.readable
        THEN Finish("lar-upload-document", a, c0, Catch(ProcessError, <<BodyReadError>>))
        ELSE IF NotPdfFile(response.text)
        THEN Finish("lar-upload-document", a, c0, Returned(NotPdfFileText, NoJson))
        ELSE \E lg \in loginAPI :
          IF lg.threw
          THEN Finish("lar-upload-document", a, c0 \o lg.calls,
                      Catch(ProcessError, lg.err))
          ELSE \E uploadResponse \in UploadResponses :
            LET formData == [Name |-> name, File |-> response.text, ScrapedAt |-> "now"]
                c == Append(c0 \o lg.calls,
                            Exchange("POST", ApiUrl(<<"/api/files">>), Bearer(lg.val),
                                     formData, uploadResponse))
            IN IF uploadResponse.rejected
               THEN Finish("lar-upload-document", a, c,
                           Catch(ProcessError, uploadResponse.err))
               ELSE Finish("lar-upload-document", a, c, UploadResult(uploadResponse))

------------------------------------------------------------------------------
(* lar-ask *)

MaxFrames == 2   \* frames the backend writes into one chunk
MaxChunks == 2   \* chunks of one response stream

NL == "\n"
Delimiter == <<NL, NL>>
DataPrefix == <<"d", "a", "t", "a", ":", " ">>

\* UTF-8: every character is one byte, except é, which is the bytes C3 A9
Lead == "C3"
Cont == "A9"
Replacement == "U+FFFD"

\* the bytes of a text (what the backend writes)
RECURSIVE Encode(_)
Encode(text) ==
    IF text = <<>> THEN <<>>
    ELSE (IF Head(text) = "é" THEN <<Lead, Cont>> ELSE <<Head(text)>>)
         \o Encode(Tail(text))

\* decoder.decode(value, { stream: true }): the text of the bytes from i on,
\* given whether a lead byte is pending from the chunk before
RECURSIVE DecodeFrom(_, _, _, _)
DecodeFrom(bytes, i, pending, out) ==
    IF i > Len(bytes) THEN [text |-> out, pending |-> pending]
    ELSE IF pending
    THEN IF bytes[i] = Cont
         THEN DecodeFrom(bytes, i + 1, FALSE, Append(out, "é"))
         ELSE DecodeFrom(bytes, i, FALSE, Append(out, Replacement))
    ELSE IF bytes[i] = Lead THEN DecodeFrom(bytes, i + 1, TRUE, out)
    ELSE IF bytes[i] = Cont THEN DecodeFrom(bytes, i + 1, FALSE, Append(out, Replacement))
    ELSE DecodeFrom(bytes, i + 1, FALSE, Append(out, bytes[i]))

\* String.prototype.split with a non-empty separator
RECURSIVE Split(_, _)
Split(s, sep) ==
    LET i == IndexOf(s, sep) IN
    IF i = 0 THEN <<s>>
    ELSE <<SubSeq(s, 1, i - 1)>> \o Split(SubSeq(s, i + Len(sep), Len(s)), sep)

\* chunk.split("\n\n").filter(Boolean)
Events(chunk) == SelectSeq(Split(chunk, Delimiter), LAMBDA e : e # <<>>)

\* a loop that cuts the prefix one character short (substring(5))
RECURSIVE AccumulateOffByOne(_, _, _)
AccumulateOffByOne(events, i, fullText) ==
    IF i > Len(events) THEN fullText
    ELSE IF StartsWith(events[i], DataPrefix)
    THEN AccumulateOffByOne(events, i + 1,
                            fullText \o SubSeq(events[i], Len(DataPrefix), Len(events[i])))
    ELSE AccumulateOffByOne(events, i + 1, fullText)

\* main.ts 83-88: the for loop over the events of one chunk
RECURSIVE Accumulate(_, _, _)
Accumulate(events, i, fullText) ==
    IF i > Len(events) THEN fullText
    ELSE IF StartsWith(events[i], DataPrefix)
    THEN Accumulate(events, i + 1,
                    fullText \o SubSeq(events[i], Len(DataPrefix) + 1, Len(events[i])))
    ELSE Accumulate(events, i + 1, fullText)

\* main.ts 73-89: the read loop, from chunk i on
RECURSIVE ReadLoop(_, _, _, _)
ReadLoop(chunks, i, pending, fullText) ==
    IF i > Len(chunks) THEN fullText
    ELSE LET d == DecodeFrom(chunks[i], 1, pending, <<>>) IN
         ReadLoop(chunks, i + 1, d.pending, Accumulate(Events(d.text), 1, fullText))

NoResponseText == <<"No se recibió respuesta del servidor.">>

\* main.ts 91-100
AskResult(fullText) == Returned(IF fullText # <<>> THEN fullText ELSE NoResponseText, NoJson)

FrameSet ==
    {DataPrefix \o <<"H">>, DataPrefix \o <<"é">>, <<>>,
     <<"d", "a", "t", "a", ":", "W">>, <<"i", NL>> \o DataPrefix \o <<"W">>}

SeqsUpTo(S, n) == UNION {[1..k -> S] : k \in 0..n}

\* the frames of one chunk, and whether a blank line follows the last one
ChunkFrames == [frames : SeqsUpTo(FrameSet, MaxFrames), term : BOOLEAN]

RECURSIVE Join(_, _)
Join(fs, sep) ==
    IF fs = <<>> THEN <<>>
    ELSE IF Len(fs) = 1 THEN fs[1]
    ELSE fs[1] \o sep \o Join(Tail(fs), sep)

\* the bytes of a chunk made of whole frames
ChunkBytes(cf) ==
    Encode(Join(cf.frames, Delimiter) \o (IF cf.term THEN Delimiter ELSE <<>>))

\* where the transport may cut the stream: nowhere (0), or, when the backend
\* made one write, after any byte of it but the last
Cuts(fs) ==
    {0} \cup (IF Len(fs) = 1 THEN 1..(Len(ChunkBytes(fs[1])) - 1) ELSE {})

\* the chunks reader.read() yields for the writes fs cut at k
Delivered(fs, k) ==
    IF k = 0 THEN [i \in 1..Len(fs) |-> ChunkBytes(fs[i])]
    ELSE LET b == ChunkBytes(fs[1]) IN <<SubSeq(b, 1, k), SubSeq(b, k + 1, Len(b))>>

\* a response of POST /api/chat/ask: hasBody = FALSE when response.body is
\* null; chunks are read one by one, and readFails says that the read after
\* the last of them rejects instead of signalling the end
AskResponse(status, text, readable, hasBody, chunks, readFails) ==
    [rejected |-> FALSE, err |-> <<>>, status |-> status, text |-> text,
     readable |-> readable, hasBody |-> hasBody, chunks |-> chunks,
     readFails |-> readFails]

AskHeads ==
    {[rejected |-> TRUE, err |-> <<m>>, status |-> 0, text |-> <<>>, readable |-> FALSE,
      hasBody |-> FALSE, chunks |-> <<>>, readFails |-> FALSE] : m \in NetErrors}
    \cup {AskResponse(500, <<"Server Error">>, TRUE, FALSE, <<>>, FALSE),
          AskResponse(404, <<>>, FALSE, FALSE, <<>>, FALSE),
          AskResponse(200, <<>>, TRUE, FALSE, <<>>, FALSE),
          AskResponse(200, <<>>, TRUE, TRUE, <<>>, FALSE)}

LarAsk ==
    /\ tool = "none"
    /\ \E message \in {"q"}, fileId \in {"1"} :
      LET a == [message |-> message, fileId |-> fileId]
          url == ApiUrl(<<"/api/chat/ask">>)
      IN
      \E lg \in loginAPI :
        IF lg.threw
        THEN /\ Finish("lar-ask", a, lg.calls, Catch(ProcessError, lg.err))
             /\ frames' = <<>>
             /\ cut' = 0
        ELSE \E head \in AskHeads :
          IF head.rejected \/ ~Ok(head) \/ ~head.hasBody
          THEN /\ Finish("lar-ask", a,
                         Append(lg.calls, Exchange("POST", url, Bearer(lg.val), a, head)),
                         IF head.rejected THEN Catch(ProcessError, head.err)
                         ELSE IF ~Ok(head)
                         THEN IF ~head.readable
                              THEN Catch(ProcessError, <<BodyReadError>>)
                              ELSE Returned(<<"Error al realizar la consulta: ",
                                              ToString(head.status), " - ">>
                                            \o head.text, NoJson)
                         ELSE Returned(<<"No se pudo iniciar la lectura de la respuesta en streaming.">>,
                                       NoJson))
               /\ frames' = <<>>
               /\ cut' = 0
          ELSE \E fs \in SeqsUpTo(ChunkFrames, MaxChunks), readFails \in BOOLEAN :
            \E k \in Cuts(fs) :
            LET chunks == Delivered(fs, k)
                resp == [head EXCEPT !.chunks = chunks, !.readFails = readFails]
                c == Append(lg.calls, Exchange("POST", url, Bearer(lg.val), a, resp))
            IN /\ Finish("lar-ask", a, c,
                         IF readFails THEN Catch(ProcessError, <<BodyReadError>>)
                         ELSE AskResult(ReadLoop(chunks, 1, FALSE, <<>>)))
               /\ frames' = fs
               /\ cut' = k

------------------------------------------------------------------------------
(* The adapter *)

Init ==
    /\ env \in SUBSET EnvVars
    /\ tool = "none"
    /\ args = <<>>
    /\ calls = <<>>
    /\ result = NoResult
    /\ frames = <<>>
    /\ cut = 0

\* The result has been handed to the MCP layer: nothing of the invocation is
\* kept (no token, no cache), and the next invocation starts from scratch.
CallEnd ==
    /\ tool # "none"
    /\ tool' = "none"
    /\ args' = <<>>
    /\ calls' = <<>>
    /\ result' = NoResult
    /\ frames' = <<>>
    /\ cut' = 0
    /\ UNCHANGED env

Next ==
    \/ LarDeleteDocument /\ UNCHANGED <<env, frames, cut>>
    \/ LarDeleteClient /\ UNCHANGED <<env, frames, cut>>
    \/ LarDeleteCase /\ UNCHANGED <<env, frames, cut>>
    \/ LarListDocuments /\ UNCHANGED <<env, frames, cut>>
    \/ LarListClients /\ UNCHANGED <<env, frames, cut>>
    \/ LarListCases /\ UNCHANGED <<env, frames, cut>>
    \/ LarCreateClient /\ UNCHANGED <<env, frames, cut>>
    \/ LarCreateCase /\ UNCHANGED <<env, frames, cut>>
    \/ LarEditClient /\ UNCHANGED <<env, frames, cut>>
    \/ LarEditCase /\ UNCHANGED <<env, frames, cut>>
    \/ LarUploadDocument /\ UNCHANGED <<env, frames, cut>>
    \/ LarAsk /\ UNCHANGED env
    \/ CallEnd

Spec == Init /\ [][Next]_vars

------------------------------------------------------------------------------
(* Properties *)

Tools ==
    {"lar-ask", "lar-upload-document", "lar-delete-document", "lar-list-documents",
     "lar-list-clients", "lar-create-client", "lar-delete-client", "lar-edit-client",
     "lar-list-cases", "lar-create-case", "lar-delete-case", "lar-edit-case"}

ListTools == {"lar-list-documents", "lar-list-clients", "lar-list-cases"}

\* the text of the result
Text == result.content[1].text

LastCall == calls[Len(calls)]

\* the property k of a request body, undefined when the body does not have it
Field(body, k) == IF k \in DOMAIN body THEN body[k] ELSE Undefined

\* the invocation got an answer (a status line) to its last request, sent to
\* the backend with the given method
Answered(t, method) ==
    /\ tool = t
    /\ calls # <<>>
    /\ LastCall.method = method
    /\ LastCall.url # LoginUrl
    /\ LastCall.url # UserIdUrl
    /\ ~LastCall.resp.rejected

\* C1: every invocation of every tool, whatever the outcome of each step, ends
\* with one result object returned to the caller, whose content[0] is a text
\* item with a text; nothing is thrown past the handler.
C1_OneTextResult ==
    tool # "none" =>
        /\ tool \in Tools
        /\ result.kind = "returned"
        /\ Len(result.content) = 1
        /\ result.content[1].type = "text"
        /\ result.content[1].text # <<>>

\* C1 witness: a list tool whose 2xx body is not JSON (response.json() throws
\* inside the handler) still returned a text result.
C1_Witness ==
    /\ Answered("lar-list-clients", "GET")
    /\ Ok(LastCall.resp) /\ LastCall.resp.readable
    /\ ~JsonParse(LastCall.resp.text).ok
    /\ result.kind = "returned"
    /\ Text = <<ClientsError, SyntaxError>>

\* C2: with one of API_URL, API_EMAIL, API_PASSWORD unset, every tool returns
\* the configuration-error message and issues no network call at all.
C2_ConfigCheckBeforeNetwork ==
    (tool # "none" /\ env # EnvVars) =>
        /\ calls = <<>>
        /\ Includes(Text, ConfigError)

\* C3 (as claimed): in lar-upload-document, a downloaded body whose first five
\* bytes are not %PDF- yields the "not a valid PDF" message, whatever the
\* content-type header, and neither login nor upload is called.
C3_NotPdfAlwaysInvalidFile ==
    (/\ tool = "lar-upload-document"
     /\ ~calls[1].resp.rejected
     /\ calls[1].resp.readable
     /\ ~StartsWith(calls[1].resp.text, PdfMagic)) =>
        /\ Text = NotPdfFileText
        /\ Len(calls) = 1

\* C3 (amended): in lar-upload-document, whenever the body's first five bytes
\* are not %PDF-, the download is the only network call (no login, no upload);
\* the text is the "not a valid PDF" message when the content-type header
\* contains "pdf" in any letter case and the body was read, and the "not PDF
\* type" message when the header is missing or does not contain "pdf".
C3_NotPdfRejected ==
    (/\ tool = "lar-upload-document"
     /\ ~calls[1].resp.rejected
     /\ ~StartsWith(calls[1].resp.text, PdfMagic)) =>
        LET d == calls[1].resp
            pdfType == \E i \in 1..Len(d.contentType) : d.contentType[i] \in {"pdf", "PDF"}
        IN /\ Len(calls) = 1
           /\ calls[1].url = <<args.url>>
           /\ (pdfType /\ d.readable) => Text = NotPdfFileText
           /\ ~pdfType => Text = NotPdfTypeText

\* C3 witness: the header claims PDF, the body is HTML, the file is refused.
C3_Witness ==
    /\ tool = "lar-upload-document"
    /\ ~calls[1].resp.rejected
    /\ calls[1].resp.contentType = <<"application/", "pdf">>
    /\ calls[1].resp.readable
    /\ calls[1].resp.text = <<"<", "h", "t", "m", "l", ">">>
    /\ Text = NotPdfFileText
    /\ Len(calls) = 1

ClientFields == {"name", "contactInformation", "address", "notes"}

\* lar-edit-client was called with clientId only and sent its PUT
EditClientIdOnly ==
    /\ tool = "lar-edit-client"
    /\ calls # <<>>
    /\ LastCall.method = "PUT"
    /\ \A k \in ClientFields : args[k] = Undefined

\* the client lar-edit-client fetched: the body of its GET
FetchedClient == JsonParse(calls[2].resp.text)

\* a property that is null and a property that is absent hold no value alike
Value(v) == IF v = Null THEN Undefined ELSE v

\* C4 (as claimed): lar-edit-client called with clientId only sends a PUT whose
\* name, contactInformation, address and notes equal the fetched entity's
\* (null and absent counting as the same value).
C4_EditClientNoOp ==
    EditClientIdOnly =>
        \A k \in ClientFields :
            Value(Field(LastCall.body, k)) = Value(Get(FetchedClient, k))

\* C4 (amended): lar-edit-client called with clientId only sends a PUT whose
\* name and contactInformation equal the fetched entity's; address and notes
\* equal the fetched entity's when they are non-empty strings or absent there,
\* and are left out of the PUT body when the fetched value is null or "".
C4_EditClientNoOpTruthy ==
    EditClientIdOnly =>
        /\ \A k \in {"name", "contactInformation"} :
              Field(LastCall.body, k) = Get(FetchedClient, k)
        /\ \A k \in {"address", "notes"} :
              Field(LastCall.body, k) =
                  IF Get(FetchedClient, k) \in {Null, ""} THEN Undefined
                  ELSE Get(FetchedClient, k)

\* C4 witness: the entity of the spec's example plus notes, edited with clientId only.
C4_Witness ==
    /\ EditClientIdOnly
    /\ calls[2].resp.text =
          <<"{", "name", "Acme", "contactInformation", "x", "address", "Y", "notes", "N", "}">>
    /\ Field(LastCall.body, "name") = "Acme"
    /\ Field(LastCall.body, "contactInformation") = "x"
    /\ Field(LastCall.body, "address") = "Y"
    /\ Field(LastCall.body, "notes") = "N"

\* C5: in lar-delete-document a 404 answer yields the "no document found with
\* name <name>" message, any other non-2xx answer the generic "status - body"
\* message, and a 2xx answer the success message (the body of a non-2xx
\* answer having arrived).
C5_DeleteDocumentMessages ==
    Answered("lar-delete-document", "DELETE") =>
        LET r == LastCall.resp IN
        /\ (r.status = 404 /\ r.readable) =>
              Text = <<"No se encontró ningún documento con el nombre \"", args.name, "\".">>
        /\ (r.status \notin 200..299 /\ r.status # 404 /\ r.readable) =>
              Text = <<"Error al eliminar el documento: ", ToString(r.status), " - ">>
                     \o r.text
        /\ r.status \in 200..299 =>
              Text = <<"Documento \"", args.name, "\" eliminado correctamente.">>

\* C5 witness: a 404 on the delete of "b c" got the dedicated message.
C5_Witness ==
    /\ Answered("lar-delete-document", "DELETE")
    /\ LastCall.url = <<"API_URL", "/api/files/", "b%20c">>
    /\ LastCall.resp.status = 404
    /\ LastCall.resp.readable
    /\ Text = <<"No se encontró ningún documento con el nombre \"", "b c", "\".">>

\* C6: in lar-delete-case a 404 answer is reported with a dedicated "not found"
\* message rather than the generic "status - body" message.
C6_DeleteCaseNotFound ==
    (/\ Answered("lar-delete-case", "DELETE")
     /\ LastCall.resp.status = 404
     /\ LastCall.resp.readable) =>
        Text # <<"Error al eliminar el caso: ", "404", " - ">> \o LastCall.resp.text

\* the payload of a frame: the text after "data: ", nothing for another frame
FramePayload(frame) ==
    IF Len(frame) >= 6 /\ [i \in 1..6 |-> frame[i]] = <<"d", "a", "t", "a", ":", " ">>
    THEN [i \in 1..(Len(frame) - 6) |-> frame[i + 6]]
    ELSE <<>>

\* the payloads of the first n frames of a chunk, in order
RECURSIVE ChunkPayloads(_, _)
ChunkPayloads(fs, n) ==
    IF n = 0 THEN <<>> ELSE ChunkPayloads(fs, n - 1) \o FramePayload(fs[n])

\* the payloads of the first n chunks of the stream, in order
RECURSIVE StreamPayloads(_)
StreamPayloads(n) ==
    IF n = 0 THEN <<>>
    ELSE StreamPayloads(n - 1) \o ChunkPayloads(frames[n].frames, Len(frames[n].frames))

\* lar-ask read its response stream to the end
StreamRead ==
    /\ Answered("lar-ask", "POST")
    /\ Ok(LastCall.resp)
    /\ LastCall.resp.hasBody
    /\ ~LastCall.resp.readFails

\* C7: in lar-ask, when every chunk of the stream consists of whole frames
\* separated by a blank line, the text is the concatenation, in arrival order,
\* of the payloads of the frames that begin with "data: "; other frames and
\* empty frames add nothing; an empty concatenation gives the "no response
\* received" message.
C7_WholeFramesDecoded ==
    (StreamRead /\ cut = 0) =>
        Text = IF StreamPayloads(Len(frames)) = <<>>
               THEN <<"No se recibió respuesta del servidor.">>
               ELSE StreamPayloads(Len(frames))

\* C7 witness: two chunks, "data: H\n\n" then a chunk with a frame without the
\* prefix, an empty frame's place and "data: é", give "Hé".
C7_Witness ==
    /\ StreamRead
    /\ cut = 0
    /\ Len(frames) = 2
    /\ frames[1] = [frames |-> <<DataPrefix \o <<"H">> >>, term |-> TRUE]
    /\ frames[2] = [frames |-> << <<"d", "a", "t", "a", ":", "W">>, DataPrefix \o <<"é">> >>,
                    term |-> TRUE]
    /\ LastCall.resp.chunks[1] = <<"d", "a", "t", "a", ":", " ", "H", NL, NL>>
    /\ Text = <<"H", "é">>

\* the failure raised inside the tool body, for the failures the state
\* identifies: a missing configuration found by loginAPI, a request that was
\* rejected, a login or user-id request answered non-2xx, a list body that is
\* not JSON, the body of a non-2xx backend answer that fails to arrive; <<>>
\* for the invocations without such a failure
RaisedFailure ==
    IF calls = <<>> THEN ConfigError
    ELSE IF LastCall.resp.rejected THEN LastCall.resp.err
    ELSE IF /\ tool = "lar-upload-document"
            /\ Len(calls) = 1
            /\ LastCall.resp.readable
            /\ StartsWith(LastCall.resp.text, PdfMagic)
            /\ \E i \in 1..Len(LastCall.resp.contentType) :
                  LastCall.resp.contentType[i] \in {"pdf", "PDF"}
    THEN ConfigError
    ELSE IF LastCall.url \in {LoginUrl, UserIdUrl} /\ ~Ok(LastCall.resp)
    THEN <<"Request failed with status code ", ToString(LastCall.resp.status)>>
    ELSE IF /\ tool \in ListTools
            /\ Ok(LastCall.resp) /\ LastCall.resp.readable
            /\ ~JsonParse(LastCall.resp.text).ok
    THEN <<SyntaxError>>
    ELSE IF /\ ~(tool = "lar-upload-document" /\ Len(calls) = 1)
            /\ ~Ok(LastCall.resp) /\ ~LastCall.resp.readable
    THEN <<BodyReadError>>
    ELSE <<>>

\* C8 (as claimed): the error boundary of each of the twelve tools turns a
\* failure raised in the tool body into the text "Error en el proceso: "
\* followed by the failure's message.
C8_UniformErrorText ==
    (tool # "none" /\ RaisedFailure # <<>>) =>
        Text = <<"Error en el proceso: ">> \o RaisedFailure

\* C8 (amended): the error boundary of each tool turns a failure raised in the
\* tool body into a text made of a prefix and the failure's message; the prefix
\* is "Error en el proceso: " for the nine tools that are not list tools, and
\* "Error al obtener los documentos: ", "Error al obtener los clientes: ",
\* "Error al obtener los casos: " for lar-list-documents, lar-list-clients and
\* lar-list-cases.
C8_ErrorTextPerTool ==
    (tool # "none" /\ RaisedFailure # <<>>) =>
        Text = <<CASE tool = "lar-list-documents" -> "Error al obtener los documentos: "
                   [] tool = "lar-list-clients" -> "Error al obtener los clientes: "
                   [] tool = "lar-list-cases" -> "Error al obtener los casos: "
                   [] OTHER -> "Error en el proceso: ">> \o RaisedFailure

\* C8 witness: lar-list-cases without configuration reports the failure under
\* its own prefix.
C8_Witness ==
    /\ tool = "lar-list-cases"
    /\ env = {"API_URL", "API_EMAIL"}
    /\ calls = <<>>
    /\ Text = <<"Error al obtener los casos: ">> \o ConfigError

\* C9: in lar-delete-client a 400 answer whose body contains "associated cases"
\* yields the "cannot delete: has associated cases" message; a 400 without the
\* substring and every other non-2xx answer yield the generic "status - body"
\* message.
C9_DeleteClientMessages ==
    (/\ Answered("lar-delete-client", "DELETE")
     /\ LastCall.resp.status \notin 200..299
     /\ LastCall.resp.readable) =>
        LET r == LastCall.resp
            conflict == \E i \in 1..(Len(r.text) - 2) :
                           <<r.text[i], r.text[i + 1], r.text[i + 2]>>
                               = <<"associated", " ", "cases">>
        IN Text = IF r.status = 400 /\ conflict
                  THEN <<"No se puede eliminar el cliente porque tiene casos asociados. Por favor, elimine primero los casos o reasígnelos a otro cliente.">>
                  ELSE <<"Error al eliminar el cliente: ", ToString(r.status), " - ">>
                       \o r.text

\* C9 witness: a 400 naming the associated cases got the dedicated message.
C9_Witness ==
    /\ Answered("lar-delete-client", "DELETE")
    /\ LastCall.resp.status = 400
    /\ LastCall.resp.text = <<"Cannot delete client with ", "associated", " ", "cases">>
    /\ LastCall.resp.readable
    /\ Text = <<"No se puede eliminar el cliente porque tiene casos asociados. Por favor, elimine primero los casos o reasígnelos a otro cliente.">>

\* lar-create-case sent its create request
CreateCaseSent ==
    /\ tool = "lar-create-case"
    /\ calls # <<>>
    /\ LastCall.method = "POST"
    /\ LastCall.url = <<"API_URL", "/api/cases">>

\* C10: lar-create-case called without a status sends POST /api/cases with
\* status "Open"; called with Open, Closed or Pending it sends that status.
C10_CreateCaseStatus ==
    CreateCaseSent =>
        Field(LastCall.body, "status") =
            IF args.status = Undefined THEN "Open" ELSE args.status

\* C10 witness: a call without status whose request carried status "Open".
C10_Witness ==
    /\ CreateCaseSent
    /\ args.status = Undefined
    /\ Field(LastCall.body, "status") = "Open"

\* a PUT was issued by the edit tool t
EditPut(t) ==
    /\ tool = t
    /\ calls # <<>>
    /\ LastCall.method = "PUT"

\* the caller-editable string fields of a case
CaseFields == {"title", "description"}

\* C11 (as claimed): in lar-edit-client and lar-edit-case, every caller-editable
\* string field the caller supplied, the empty string included, is carried
\* unchanged by the PUT body.
C11_SuppliedFieldsSent ==
    /\ EditPut("lar-edit-client") =>
         \A k \in ClientFields :
            args[k] # Undefined => Field(LastCall.body, k) = args[k]
    /\ EditPut("lar-edit-case") =>
         \A k \in CaseFields :
            args[k] # Undefined => Field(LastCall.body, k) = args[k]

\* the tools that fetch the entity before they write it
EditTools == {"lar-edit-client", "lar-edit-case"}

\* the exchange got an answer with a 2xx status
Got2xx(c) == ~c.resp.rejected /\ c.resp.status \in 200..299

\* the texts an edit tool returns for a failure
EditErrorPrefixes ==
    {ProcessError, "Error al obtener el cliente para editar: ",
     "Error al obtener el caso para editar: "}

\* C12: in lar-edit-client and lar-edit-case a PUT is issued only after the
\* login (first request) and the GET of the same entity (second request) both
\* got a 2xx answer, and it is the last request; when the GET fails or gets a
\* non-2xx answer (404 included) it is the last request of the invocation, no
\* PUT is issued and the result is an error text.
C12_GetBeforePut ==
    tool \in EditTools =>
        /\ \A i \in 1..Len(calls) :
              calls[i].method = "PUT" =>
                  /\ i > 2
                  /\ i = Len(calls)
                  /\ calls[1].url = LoginUrl
                  /\ Got2xx(calls[1])
                  /\ calls[2].method = "GET"
                  /\ calls[2].url = calls[i].url
                  /\ Got2xx(calls[2])
        /\ (Len(calls) >= 2 /\ ~Got2xx(calls[2])) =>
              /\ Len(calls) = 2
              /\ calls[2].method = "GET"
              /\ Text[1] \in EditErrorPrefixes

\* an edit whose GET was answered 404: the invocation stopped there
C12_Witness ==
    /\ tool \in EditTools
    /\ Len(calls) = 2
    /\ calls[2].method = "GET"
    /\ ~calls[2].resp.rejected
    /\ calls[2].resp.status = 404
    /\ Text[1] \in EditErrorPrefixes

\* the case lar-edit-case fetched: the body of its GET
FetchedCase == JsonParse(calls[2].resp.text)

\* the requests of the invocation sent to the user-id endpoint
UserIdCalls == {i \in 1..Len(calls) : calls[i].url = UserIdUrl}

\* C13: when lar-edit-case issues its PUT, a caller that supplied no
\* assignedUserId gets the identifier the user-id endpoint returned in this
\* invocation as the body's assignedUserId (whatever assignee the fetched case
\* has); a caller that supplied one gets that value, and the user-id endpoint
\* is not called.
C13_Assignee ==
    EditPut("lar-edit-case") =>
        IF args.assignedUserId = Undefined
        THEN \E i \in UserIdCalls :
                /\ i < Len(calls)
                /\ Got2xx(calls[i])
                /\ Field(LastCall.body, "assignedUserId")
                     = Get(JsonParse(calls[i].resp.text), "userId")
        ELSE /\ Field(LastCall.body, "assignedUserId") = args.assignedUserId
             /\ UserIdCalls = {}

\* no assignee supplied, the fetched case has another assignee than the
\* current user, and the PUT carries the current user's identifier
C13_Witness ==
    /\ EditPut("lar-edit-case")
    /\ args.assignedUserId = Undefined
    /\ UserIdCalls # {}
    /\ Get(FetchedCase, "assignedUserId") = "u7"
    /\ Field(LastCall.body, "assignedUserId") = "u1"

\* the invocation's last request went to a backend endpoint whose answer the
\* tool parses as JSON, and the answer was 2xx with a readable body that is
\* not valid JSON
UnparsableAnswer ==
    /\ tool \in Tools \ {"lar-ask"}
    /\ calls # <<>>
    /\ LastCall.url # LoginUrl
    /\ LastCall.url # UserIdUrl
    /\ tool = "lar-upload-document" => Len(calls) > 1
    /\ Got2xx(LastCall)
    /\ LastCall.resp.readable
    /\ ~JsonParse(LastCall.resp.text).ok

\* the prefixes of the texts the error boundaries produce
CatchPrefixes == {ProcessError, DocumentsError, ClientsError, CasesError}

\* C14 (as claimed): a 2xx backend answer whose body is not valid JSON never
\* yields a failure result, in the list tools and the GET step of the edit
\* tools as anywhere else: the result is not an error text.
C14_ParseNeverFatal ==
    UnparsableAnswer => Text[1] \notin CatchPrefixes

\* the request is the download of the file to upload, sent to the caller's url
IsDownload(i) == tool = "lar-upload-document" /\ i = 1

\* the token a login exchange returned
TokenOf(c) == Get(JsonParse(c.resp.text), "token")

\* C15: every request of an invocation to a backend endpoint other than the
\* login endpoint carries "Bearer <token>", the token being the one a login
\* request that got its answer earlier in the same invocation returned.
C15_FreshBearer ==
    \A i \in 1..Len(calls) :
        (calls[i].url # LoginUrl /\ ~IsDownload(i)) =>
            \E j \in 1..(i - 1) :
                /\ calls[j].url = LoginUrl
                /\ Got2xx(calls[j])
                /\ calls[i].auth = <<"Bearer ", TokenOf(calls[j])>>

\* an edit of a case that logged in twice and got two different tokens: the
\* user-id request carries the second, the PUT the first
C15_Witness ==
    /\ EditPut("lar-edit-case")
    /\ Len(calls) = 5
    /\ calls[3].url = LoginUrl
    /\ TokenOf(calls[1]) = "jwt1"
    /\ TokenOf(calls[3]) = "jwt2"
    /\ calls[4].auth = <<"Bearer ", "jwt2">>
    /\ calls[5].auth = <<"Bearer ", "jwt1">>

\* the request failed: it was rejected or answered with a non-2xx status
Failed(c) == c.resp.rejected \/ c.resp.status \notin 200..299

\* the first token of every text a tool returns for a failed request
ErrorPrefixes ==
    CatchPrefixes \cup EditErrorPrefixes
    \cup {"Error al eliminar el documento: ",
          "No se encontró ningún documento con el nombre \"",
          "No se puede eliminar el cliente porque tiene casos asociados. Por favor, elimine primero los casos o reasígnelos a otro cliente.",
          "Error al eliminar el cliente: ", "Error al eliminar el caso: ",
          "Error al crear el cliente: ", "Error al crear el caso: ",
          "Error al actualizar el cliente: ", "Error al actualizar el caso: ",
          "Error al subir el documento: ", "Error al realizar la consulta: "}

C17_ChunkingIrrelevant ==
    (StreamRead /\ Len(frames) = 1) =>
        Text = IF StreamPayloads(1) = <<>> THEN NoResponseText ELSE StreamPayloads(1)

====
